---- MODULE Spec2Model ----
(***************************************************************************)
(* Model of src/types/observableobject.ts: the administration record of a  *)
(* reactive object (ObservableObjectAdministration), the property          *)
(* installers and the mutation router setPropertyValue.                    *)
(*                                                                         *)
(* Every exported function is one atomic action.  The callbacks a function *)
(* runs (interceptors, listeners, the spy handler) run inside it, and a    *)
(* callback that assigns the property re-enters the router, so the         *)
(* functions are recursive operators over a "world" record                 *)
(*   [values, target, interceptors, changeListeners, spy, log, err].       *)
(* log is the sequence of events of the current outermost operation, in    *)
(* the order the code performs them, with what each handler observed.      *)
(* A raised error stops the operation; what it changed before stays.       *)
(***************************************************************************)
EXTENDS Integers, Sequences, FiniteSets, TLC

\* ------------------------------------------------------------------ bounds
MaxCallbacks == 2       \* guards plus listeners registered on one record

Objects == {"A", "B"}
Names == {"x"}
Vals == {1, 3}          \* values written and installed from outside

\* ------------------------------------------------------------ value space
Undefined == 0 - 1              \* JavaScript undefined
UNCHANGED_SENTINEL == 0 - 2     \* the UNCHANGED marker of observablevalue
\* what a writing callback assigns: the largest of the outside values
ReentrantVal == CHOOSE v \in Vals : \A u \in Vals : u <= v

NoErr == "none"
InterceptorKinds == {"cancel", "times10", "write"}
ListenerKinds == {"read", "write"}
Enhancers == {"reference", "odd"}

\* e bound to its value once, then F of it: the steps of a function body in order
Bind(e, F(_)) == CHOOSE r \in {F(v) : v \in {e}} : TRUE

\* IEnhancer: the coercion a value cell applies to every value it stores.
\* "reference" stores the value as is; "odd" normalises it to the next odd
\* number (idempotent).
Enhance(enhancer, v) ==
  IF enhancer = "odd" /\ v >= 0 THEN v + 1 - (v % 2) ELSE v

\* ------------------------------------------------------------------ cells
NoCell == [kind |-> "none", value |-> Undefined, enhancer |-> "none"]

\* new ObservableValue(newValue, enhancer, name, false)
ObservableValue(v, enhancer) ==
  [kind |-> "observable", value |-> Enhance(enhancer, v), enhancer |-> enhancer]

\* new ComputedValue(getter, scope, compareStructural, name, setter); value is
\* what its setter last received, which its getter returns
ComputedValue ==
  [kind |-> "computed", value |-> Undefined, enhancer |-> "none"]

\* observable.prepareNewValue(newValue): coercion, then the equality test
prepareNewValue(cell, v) ==
  LET nv == Enhance(cell.enhancer, v)
  IN  IF nv = cell.value THEN UNCHANGED_SENTINEL ELSE nv

\* ------------------------------------------- the target's own properties
Absent == [kind |-> "absent", value |-> Undefined, configurable |-> TRUE, config |-> "none"]
Data(v, c) == [kind |-> "data", value |-> v, configurable |-> c, config |-> "none"]

\* generateObservablePropConfig(propName): the memoized accessor descriptor
generateObservablePropConfig(propName) ==
  [kind |-> "accessor", value |-> Undefined, configurable |-> TRUE, config |-> "observable"]

\* generateComputedPropConfig(propName)
generateComputedPropConfig(propName) ==
  [kind |-> "accessor", value |-> Undefined, configurable |-> TRUE, config |-> "computed"]

\* ------------------------------------------------------ target objects
\* adm.name: a name the caller gave (id 0) or a generated base@id
NoLabel == [base |-> "", id |-> 0]
Label(base, id) == [base |-> base, id |-> id]

\* a target object that carries no administration
FreshTarget(extensible, plain, typeName) ==
  [attached |-> FALSE, name |-> NoLabel, extensible |-> extensible, plain |-> plain,
   typeName |-> typeName]

\* ----------------------------------------------------------------- state
VARIABLES
  values,           \* adm.values: [Objects -> [Names -> cell]]
  target,           \* adm.target's own property descriptors
  interceptors,     \* adm.interceptors: [Objects -> Seq(InterceptorKinds)]
  changeListeners,  \* adm.changeListeners: [Objects -> Seq(ListenerKinds)]
  spyEnabled,       \* isSpyEnabled()
  log,              \* events of the last outermost operation
  err,              \* the error the last outermost operation raised, or NoErr
  instances,        \* the target objects: whether $mobx is attached, adm.name,
                    \* Object.isExtensible, isPlainObject, constructor.name
  mobxGuid          \* the counter behind getNextId()

vars == <<values, target, interceptors, changeListeners, spyEnabled, log, err,
          instances, mobxGuid>>

World ==
  [values |-> values, target |-> target, interceptors |-> interceptors,
   changeListeners |-> changeListeners, spy |-> spyEnabled, log |-> <<>>, err |-> NoErr,
   instances |-> instances, mobxGuid |-> mobxGuid]

\* ------------------------------------------------------------------- log
\* An event: ev, what happened; obj, inv: the object and the invocation (of a
\* router or installer function on it) that did it; type, name, oldValue,
\* newValue: its change; seen: what was read from the cell or the property at
\* that moment; idx: the callback's index; kind: the kind of the cell bound at
\* name when the invocation was entered; asInstanceProperty: an installer's
\* argument; enhancer: the coercion of the cell prepared or bound; arg, label:
\* the name asObservableObject was given and the name of the record it
\* returned.  Ev fills in the fields not given.
NoEvent ==
  [ev |-> "", obj |-> "", inv |-> 0, type |-> "", name |-> "", oldValue |-> Undefined,
   newValue |-> Undefined, seen |-> Undefined, idx |-> 0, kind |-> "",
   asInstanceProperty |-> FALSE, enhancer |-> "none", arg |-> "", label |-> NoLabel]
Ev(fields) == fields @@ NoEvent

Emit(w, e) == [w EXCEPT !.log = Append(@, e)]
Throw(w, e) == [w EXCEPT !.err = e]

\* the number of the next invocation
NextInv(w) == 1 + Cardinality({i \in 1..Len(w.log) : w.log[i].ev = "enter"})

hasInterceptors(w, o) == Len(w.interceptors[o]) > 0
hasListeners(w, o) == Len(w.changeListeners[o]) > 0

\* cell.get()
CellGet(cell) == cell.value

\* instance[name]: what a handler reading the property sees
ReadProp(w, o, name) ==
  LET t == w.target[o][name]
  IN  CASE t.kind = "absent" -> Undefined
        [] t.kind = "data" -> t.value
        [] OTHER -> CellGet(w.values[o][name])

CancelledChange == [type |-> "cancelled", name |-> "", newValue |-> Undefined, oldValue |-> Undefined]
Change(type, name, newValue, oldValue) ==
  [type |-> type, name |-> name, newValue |-> newValue, oldValue |-> oldValue]

\* ------------------------------------------------- cells' own setters
\* this.$mobx.values[propName].set(v): the cell's own setter, which runs none
\* of the record's pipelines
CellSet(w, o, name, v) ==
  LET cell == w.values[o][name]
      nv == prepareNewValue(cell, v)
  IN  CASE cell.kind = "none" -> Throw(w, "TypeError")
        [] cell.kind = "computed" ->
             Emit([w EXCEPT !.values[o][name].value = v],
                  Ev([ev |-> "cellSet", obj |-> o, type |-> "computed", name |-> name,
                      oldValue |-> cell.value, newValue |-> v]))
        [] OTHER ->
             IF nv = UNCHANGED_SENTINEL THEN w
             ELSE Emit([w EXCEPT !.values[o][name].value = nv],
                       Ev([ev |-> "cellSet", obj |-> o, type |-> "observable", name |-> name,
                           oldValue |-> cell.value, newValue |-> nv]))

\* observable.setNewValue(newValue): the commit; its event records the cell's
\* value before it and what the cell holds after it
setNewValue(w, o, inv, name, newValue) ==
  Bind([w EXCEPT !.values[o][name].value = newValue], LAMBDA w1 :
    Emit(w1, Ev([ev |-> "setNewValue", obj |-> o, inv |-> inv, type |-> "update",
                 name |-> name, oldValue |-> w.values[o][name].value,
                 newValue |-> newValue, seen |-> w1.values[o][name].value])))

\* spyReportStart(change): the trace handler reads the property
spyReportStart(w, o, inv, change) ==
  Emit(w, Ev([ev |-> "spyStart", obj |-> o, inv |-> inv, type |-> change.type,
              name |-> change.name, oldValue |-> change.oldValue,
              newValue |-> change.newValue, seen |-> ReadProp(w, o, change.name)]))

\* spyReportEnd()
spyReportEnd(w, o, inv) ==
  Emit(w, Ev([ev |-> "spyEnd", obj |-> o, inv |-> inv]))

\* ---------------------------------------------------- the mutation router
RECURSIVE setPropertyValue(_, _, _, _, _)
RECURSIVE interceptChange(_, _, _, _, _, _)
RECURSIVE notifyListeners(_, _, _, _, _, _)

\* a memoized setter that closes over the first object it was made for
ObservableSetter_Captured(w, o, propName, v, d) == setPropertyValue(w, "A", propName, v, d)

\* set: function(v) { setPropertyValue(this, propName, v) }
ObservableSetter(w, o, propName, v, d) == setPropertyValue(w, o, propName, v, d)

\* a computed accessor whose setter goes through the router
ComputedSetter_ThroughRouter(w, o, propName, v, d) == setPropertyValue(w, o, propName, v, d)

\* set: function(v) { return this.$mobx.values[propName].set(v) }
ComputedSetter(w, o, propName, v, d) == CellSet(w, o, propName, v)

\* instance[name] = v, dispatched on the target's own property; strict-mode
\* code cannot add a property to an object that is not extensible
AssignProp(w, o, name, v, d) ==
  LET t == w.target[o][name]
  IN  CASE t.kind = "accessor" /\ t.config = "observable" ->
             ObservableSetter(w, o, name, v, d)
        [] t.kind = "accessor" /\ t.config = "computed" ->
             ComputedSetter(w, o, name, v, d)
        [] t.kind = "absent" /\ ~w.instances[o].extensible ->
             Throw(w, "TypeError")
        [] OTHER ->
             Emit([w EXCEPT !.target[o][name] = Data(v, t.configurable)],
                  Ev([ev |-> "dataStore", obj |-> o, name |-> name,
                      oldValue |-> t.value, newValue |-> v]))

\* one guard callback: it returns the change, a rewritten change, or nothing;
\* d is the callback nesting depth of the invocation that runs it, and a
\* writing callback assigns the property unless it runs inside such a write
Interceptor(kind, w, o, change, d) ==
  CASE kind = "cancel" -> [w |-> w, change |-> CancelledChange]
    [] kind = "times10" ->
         [w |-> w, change |-> [change EXCEPT !.newValue = @ * 10]]
    [] OTHER ->
         IF d = 0
         THEN Bind(AssignProp(w, o, change.name, ReentrantVal, d + 1),
                   LAMBDA w1 : [w |-> w1, change |-> change])
         ELSE [w |-> w, change |-> change]

\* interceptChange(adm, change): the guards from the i-th on, in order, then
\* the chain's result
interceptChange(w, o, inv, change, i, d) ==
  IF i > Len(w.interceptors[o])
  THEN [w |-> Emit(w, Ev([ev |-> "chainResult", obj |-> o, inv |-> inv,
                          type |-> "continue", name |-> change.name,
                          newValue |-> change.newValue])),
        change |-> change]
  ELSE Bind(Emit(w, Ev([ev |-> "intercept", obj |-> o, inv |-> inv, type |-> change.type,
                        name |-> change.name, newValue |-> change.newValue,
                        idx |-> i])), LAMBDA w1 :
       Bind(Interceptor(w1.interceptors[o][i], w1, o, change, d), LAMBDA r :
         IF r.w.err # NoErr THEN r
         ELSE IF r.change.type = "cancelled"
         THEN [w |-> Emit(r.w, Ev([ev |-> "chainResult", obj |-> o, inv |-> inv,
                                   type |-> "cancel", name |-> change.name])),
               change |-> r.change]
         ELSE interceptChange(r.w, o, inv, r.change, i + 1, d)))

\* one listener callback: a reader, a writer (as the writing guard), or one
\* that raises an error
Listener(kind, w, o, change, d) ==
  CASE kind = "read" -> w
    [] kind = "throw" -> Throw(w, "ListenerError")
    [] OTHER -> IF d = 0
                THEN AssignProp(w, o, change.name, ReentrantVal, d + 1)
                ELSE w

\* notifyListeners(adm, change): the listeners from the i-th on; each one's
\* event records what it reads from the property when it is called
notifyListeners(w, o, inv, change, i, d) ==
  IF i > Len(w.changeListeners[o]) THEN w
  ELSE Bind(Emit(w, Ev([ev |-> "notify", obj |-> o, inv |-> inv, type |-> change.type,
                        name |-> change.name, oldValue |-> change.oldValue,
                        newValue |-> change.newValue,
                        seen |-> ReadProp(w, o, change.name), idx |-> i])), LAMBDA w1 :
       Bind(Listener(w1.changeListeners[o][i], w1, o, change, d), LAMBDA w2 :
         IF w2.err # NoErr THEN w2
         ELSE notifyListeners(w2, o, inv, change, i + 1, d)))

\* a router that notifies the listeners before it commits
commitAndNotify_NotifyFirst(w, o, inv, name, newValue, d) ==
  LET notify == hasListeners(w, o)
      notifySpy == w.spy
      change == Change("update", name, newValue, w.values[o][name].value)
  IN  Bind(IF notifySpy THEN spyReportStart(w, o, inv, change) ELSE w, LAMBDA w1 :
      Bind(IF notify THEN notifyListeners(w1, o, inv, change, 1, d) ELSE w1, LAMBDA w2 :
        IF w2.err # NoErr THEN w2
        ELSE Bind(setNewValue(w2, o, inv, name, newValue), LAMBDA w3 :
               IF notifySpy THEN spyReportEnd(w3, o, inv) ELSE w3)))

\* a router whose change record takes the old value after the commit
commitAndNotify_LateOldValue(w, o, inv, name, newValue, d) ==
  LET notify == hasListeners(w, o)
      notifySpy == w.spy
  IN  Bind(IF notifySpy
           THEN spyReportStart(w, o, inv, Change("update", name, newValue, w.values[o][name].value))
           ELSE w, LAMBDA w1 :
      Bind(setNewValue(w1, o, inv, name, newValue), LAMBDA w2 :
      Bind(IF notify
           THEN notifyListeners(w2, o, inv,
                  Change("update", name, newValue, w2.values[o][name].value), 1, d)
           ELSE w2, LAMBDA w3 :
        IF w3.err # NoErr THEN w3
        ELSE IF notifySpy THEN spyReportEnd(w3, o, inv) ELSE w3)))

\* a router that commits inside the branch that builds the change record
commitAndNotify_CommitWhenObserved(w, o, inv, name, newValue, d) ==
  LET notify == hasListeners(w, o)
      notifySpy == w.spy
      change == Change("update", name, newValue, w.values[o][name].value)
  IN  IF ~(notify \/ notifySpy) THEN w
      ELSE
      Bind(IF notifySpy THEN spyReportStart(w, o, inv, change) ELSE w, LAMBDA w1 :
      Bind(setNewValue(w1, o, inv, name, newValue), LAMBDA w2 :
      Bind(IF notify THEN notifyListeners(w2, o, inv, change, 1, d) ELSE w2, LAMBDA w3 :
        IF w3.err # NoErr THEN w3
        ELSE IF notifySpy THEN spyReportEnd(w3, o, inv) ELSE w3)))

\* setPropertyValue, lines 221-239: notify spy & observers
commitAndNotify(w, o, inv, name, newValue, d) ==
  LET notify == hasListeners(w, o)
      notifySpy == w.spy
      change == Change("update", name, newValue, w.values[o][name].value)
  IN  Bind(IF notifySpy THEN spyReportStart(w, o, inv, change) ELSE w, LAMBDA w1 :
      Bind(setNewValue(w1, o, inv, name, newValue), LAMBDA w2 :
      Bind(IF notify THEN notifyListeners(w2, o, inv, change, 1, d) ELSE w2, LAMBDA w3 :
        IF w3.err # NoErr THEN w3
        ELSE IF notifySpy THEN spyReportEnd(w3, o, inv) ELSE w3)))

\* the end of an invocation that returns normally
Return(w, o, inv, name, how) ==
  IF w.err # NoErr THEN w
  ELSE Emit(w, Ev([ev |-> "return", obj |-> o, inv |-> inv, type |-> how,
                   name |-> name, seen |-> w.values[o][name].value]))

\* a router that goes on with the caller's value when the chain cancels
interceptAndPrepare_IgnoreVeto(w, o, inv, name, newValue, d) ==
  Bind(IF hasInterceptors(w, o)
       THEN interceptChange(w, o, inv, Change("update", name, newValue, Undefined), 1, d)
       ELSE [w |-> w, change |-> Change("update", name, newValue, Undefined)], LAMBDA r :
    IF r.w.err # NoErr THEN [w |-> r.w, newValue |-> Undefined, how |-> "error"]
    ELSE IF r.w.values[o][name].kind # "observable"
    THEN [w |-> Throw(r.w, "TypeError"), newValue |-> Undefined, how |-> "error"]
    ELSE Bind(IF r.change.type = "cancelled" THEN newValue ELSE r.change.newValue, LAMBDA v :
         Bind(prepareNewValue(r.w.values[o][name], v), LAMBDA nv :
           [w |-> Emit(r.w, Ev([ev |-> "prepareNewValue", obj |-> o, inv |-> inv,
                                type |-> "update", name |-> name,
                                enhancer |-> r.w.values[o][name].enhancer,
                                oldValue |-> r.w.values[o][name].value,
                                newValue |-> v, seen |-> nv])),
            newValue |-> nv,
            how |-> IF nv = UNCHANGED_SENTINEL THEN "unchanged" ELSE "committed"])))

\* a router that commits whatever the coercion yields, equal or not
interceptAndPrepare_AlwaysCommit(w, o, inv, name, newValue, d) ==
  Bind(IF hasInterceptors(w, o)
       THEN interceptChange(w, o, inv, Change("update", name, newValue, Undefined), 1, d)
       ELSE [w |-> w, change |-> Change("update", name, newValue, Undefined)], LAMBDA r :
    IF r.w.err # NoErr THEN [w |-> r.w, newValue |-> Undefined, how |-> "error"]
    ELSE IF r.change.type = "cancelled"
    THEN [w |-> r.w, newValue |-> Undefined, how |-> "veto"]
    ELSE IF r.w.values[o][name].kind # "observable"
    THEN [w |-> Throw(r.w, "TypeError"), newValue |-> Undefined, how |-> "error"]
    ELSE Bind(prepareNewValue(r.w.values[o][name], r.change.newValue), LAMBDA nv :
           [w |-> Emit(r.w, Ev([ev |-> "prepareNewValue", obj |-> o, inv |-> inv,
                                type |-> "update", name |-> name,
                                enhancer |-> r.w.values[o][name].enhancer,
                                oldValue |-> r.w.values[o][name].value,
                                newValue |-> r.change.newValue, seen |-> nv])),
            newValue |-> Enhance(r.w.values[o][name].enhancer, r.change.newValue),
            how |-> "committed"]))

\* a router that runs the guards but hands the caller's value to the cell
interceptAndPrepare_CallerValue(w, o, inv, name, newValue, d) ==
  Bind(IF hasInterceptors(w, o)
       THEN interceptChange(w, o, inv, Change("update", name, newValue, Undefined), 1, d)
       ELSE [w |-> w, change |-> Change("update", name, newValue, Undefined)], LAMBDA r :
    IF r.w.err # NoErr THEN [w |-> r.w, newValue |-> Undefined, how |-> "error"]
    ELSE IF r.change.type = "cancelled"
    THEN [w |-> r.w, newValue |-> Undefined, how |-> "veto"]
    ELSE IF r.w.values[o][name].kind # "observable"
    THEN [w |-> Throw(r.w, "TypeError"), newValue |-> Undefined, how |-> "error"]
    ELSE Bind(prepareNewValue(r.w.values[o][name], newValue), LAMBDA nv :
           [w |-> Emit(r.w, Ev([ev |-> "prepareNewValue", obj |-> o, inv |-> inv,
                                type |-> "update", name |-> name,
                                enhancer |-> r.w.values[o][name].enhancer,
                                oldValue |-> r.w.values[o][name].value,
                                newValue |-> newValue, seen |-> nv])),
            newValue |-> nv,
            how |-> IF nv = UNCHANGED_SENTINEL THEN "unchanged" ELSE "committed"]))

\* setPropertyValue, lines 208-219: intercept, then the cell's coercion
interceptAndPrepare(w, o, inv, name, newValue, d) ==
  Bind(IF hasInterceptors(w, o)
       THEN interceptChange(w, o, inv, Change("update", name, newValue, Undefined), 1, d)
       ELSE [w |-> w, change |-> Change("update", name, newValue, Undefined)], LAMBDA r :
    IF r.w.err # NoErr THEN [w |-> r.w, newValue |-> Undefined, how |-> "error"]
    ELSE IF r.change.type = "cancelled"
    THEN [w |-> r.w, newValue |-> Undefined, how |-> "veto"]
    ELSE IF r.w.values[o][name].kind # "observable"
    THEN [w |-> Throw(r.w, "TypeError"), newValue |-> Undefined, how |-> "error"]
    ELSE Bind(prepareNewValue(r.w.values[o][name], r.change.newValue), LAMBDA nv :
           [w |-> Emit(r.w, Ev([ev |-> "prepareNewValue", obj |-> o, inv |-> inv,
                                type |-> "update", name |-> name,
                                enhancer |-> r.w.values[o][name].enhancer,
                                oldValue |-> r.w.values[o][name].value,
                                newValue |-> r.change.newValue, seen |-> nv])),
            newValue |-> nv,
            how |-> IF nv = UNCHANGED_SENTINEL THEN "unchanged" ELSE "committed"]))

\* setPropertyValue(instance, name, newValue)
setPropertyValue(w, o, name, newValue, d) ==
  Bind(NextInv(w), LAMBDA inv :
  Bind(Emit(w, Ev([ev |-> "enter", obj |-> o, inv |-> inv, type |-> "update",
                   name |-> name, newValue |-> newValue,
                   seen |-> w.values[o][name].value, idx |-> d,
                   kind |-> w.values[o][name].kind])), LAMBDA w1 :
  Bind(interceptAndPrepare(w1, o, inv, name, newValue, d), LAMBDA p :
    IF p.how = "committed"
    THEN Bind(commitAndNotify(p.w, o, inv, name, p.newValue, d), LAMBDA w2 :
              Return(w2, o, inv, name, p.how))
    ELSE Return(p.w, o, inv, name, p.how))))

\* ----------------------------------------------------- property installer
\* assertPropertyConfigurable(adm.target, propName)
assertPropertyConfigurable(w, o, propName) ==
  IF w.target[o][propName].kind # "absent" /\ ~w.target[o][propName].configurable
  THEN Throw(w, "PropertyNotConfigurable")
  ELSE w

\* Object.defineProperty(adm.target, propName, config): it fails on a
\* non-configurable property and on a new property of a non-extensible object
defineProperty(w, o, inv, propName, config) ==
  IF \/ w.target[o][propName].kind # "absent" /\ ~w.target[o][propName].configurable
     \/ w.target[o][propName].kind = "absent" /\ ~w.instances[o].extensible
  THEN Throw(w, "TypeError")
  ELSE Emit([w EXCEPT !.target[o][propName] = config],
            Ev([ev |-> "defineProperty", obj |-> o, inv |-> inv,
                type |-> config.config, name |-> propName]))

\* adm.values[propName] = cell
bind(w, o, inv, propName, cell) ==
  Emit([w EXCEPT !.values[o][propName] = cell],
       Ev([ev |-> "bind", obj |-> o, inv |-> inv, type |-> cell.kind,
           name |-> propName, newValue |-> cell.value, enhancer |-> cell.enhancer]))

\* notifyPropertyAddition(adm, object, name, newValue)
notifyPropertyAddition(w, o, inv, name, newValue, d) ==
  LET notify == hasListeners(w, o)
      notifySpy == w.spy
      change == Change("add", name, newValue, Undefined)
  IN  Bind(IF notifySpy THEN spyReportStart(w, o, inv, change) ELSE w, LAMBDA w1 :
      Bind(IF notify THEN notifyListeners(w1, o, inv, change, 1, d) ELSE w1, LAMBDA w2 :
        IF w2.err # NoErr THEN w2
        ELSE IF notifySpy THEN spyReportEnd(w2, o, inv) ELSE w2))

\* an installer that notifies the value the guards returned
constructAndNotify_NotifyIntercepted(w, o, inv, propName, newValue, enhancer, asInstanceProperty, d) ==
  Bind(bind(w, o, inv, propName, ObservableValue(newValue, enhancer)), LAMBDA w1 :
  Bind(IF asInstanceProperty
       THEN defineProperty(w1, o, inv, propName, generateObservablePropConfig(propName))
       ELSE w1, LAMBDA w2 :
    IF w2.err # NoErr THEN w2
    ELSE notifyPropertyAddition(w2, o, inv, propName, newValue, d)))

\* defineObservableProperty, lines 132-138: construct and bind the cell,
\* install the accessor, notify
constructAndNotify(w, o, inv, propName, newValue, enhancer, asInstanceProperty, d) ==
  Bind(bind(w, o, inv, propName, ObservableValue(newValue, enhancer)), LAMBDA w1 :
  Bind(IF asInstanceProperty
       THEN defineProperty(w1, o, inv, propName, generateObservablePropConfig(propName))
       ELSE w1, LAMBDA w2 :
    IF w2.err # NoErr THEN w2
    ELSE notifyPropertyAddition(w2, o, inv, propName, w1.values[o][propName].value, d)))

\* an installer that seeds the cell with the caller's value whatever the
\* guards returned
defineObservableProperty_IgnoreChain(w, o, propName, newValue, enhancer, asInstanceProperty, d) ==
  Bind(NextInv(w), LAMBDA inv :
  Bind(Emit(w, Ev([ev |-> "enter", obj |-> o, inv |-> inv, type |-> "add",
                   name |-> propName, newValue |-> newValue,
                   seen |-> w.values[o][propName].value, idx |-> d,
                   kind |-> w.values[o][propName].kind,
                   asInstanceProperty |-> asInstanceProperty])), LAMBDA w1 :
  Bind(IF asInstanceProperty THEN assertPropertyConfigurable(w1, o, propName) ELSE w1, LAMBDA w2 :
    IF w2.err # NoErr THEN w2
    ELSE
  Bind(IF hasInterceptors(w2, o)
       THEN interceptChange(w2, o, inv, Change("add", propName, newValue, Undefined), 1, d)
       ELSE [w |-> w2, change |-> Change("add", propName, newValue, Undefined)], LAMBDA r :
    IF r.w.err # NoErr THEN r.w
    ELSE Bind(constructAndNotify(r.w, o, inv, propName, newValue,
                                 enhancer, asInstanceProperty, d), LAMBDA w3 :
              Return(w3, o, inv, propName, "committed"))))))

\* defineObservableProperty(adm, propName, newValue, enhancer, asInstanceProperty)
defineObservableProperty(w, o, propName, newValue, enhancer, asInstanceProperty, d) ==
  Bind(NextInv(w), LAMBDA inv :
  Bind(Emit(w, Ev([ev |-> "enter", obj |-> o, inv |-> inv, type |-> "add",
                   name |-> propName, newValue |-> newValue,
                   seen |-> w.values[o][propName].value, idx |-> d,
                   kind |-> w.values[o][propName].kind,
                   asInstanceProperty |-> asInstanceProperty])), LAMBDA w1 :
  Bind(IF asInstanceProperty THEN assertPropertyConfigurable(w1, o, propName) ELSE w1, LAMBDA w2 :
    IF w2.err # NoErr THEN w2
    ELSE
  Bind(IF hasInterceptors(w2, o)
       THEN interceptChange(w2, o, inv, Change("add", propName, newValue, Undefined), 1, d)
       ELSE [w |-> w2, change |-> Change("add", propName, newValue, Undefined)], LAMBDA r :
    IF r.w.err # NoErr THEN r.w
    ELSE IF r.change.type = "cancelled" THEN Return(r.w, o, inv, propName, "veto")
    ELSE Bind(constructAndNotify(r.w, o, inv, propName, r.change.newValue,
                                 enhancer, asInstanceProperty, d), LAMBDA w3 :
              Return(w3, o, inv, propName, "committed"))))))

\* defineComputedProperty(adm, propName, getter, setter, compareStructural, asInstanceProperty)
defineComputedProperty(w, o, propName, asInstanceProperty) ==
  Bind(NextInv(w), LAMBDA inv :
  Bind(Emit(w, Ev([ev |-> "enter", obj |-> o, inv |-> inv, type |-> "computed",
                   name |-> propName, seen |-> w.values[o][propName].value,
                   kind |-> w.values[o][propName].kind,
                   asInstanceProperty |-> asInstanceProperty])), LAMBDA w1 :
  Bind(IF asInstanceProperty THEN assertPropertyConfigurable(w1, o, propName) ELSE w1, LAMBDA w2 :
    IF w2.err # NoErr THEN w2
    ELSE
  Bind(bind(w2, o, inv, propName, ComputedValue), LAMBDA w3 :
    IF asInstanceProperty
    THEN defineProperty(w3, o, inv, propName, generateComputedPropConfig(propName))
    ELSE w3))))

\* defineComputedPropertyFromComputedValue(adm, propName, computedValue, asInstanceProperty)
defineComputedPropertyFromComputedValue(w, o, propName, asInstanceProperty) ==
  Bind(NextInv(w), LAMBDA inv :
  Bind(Emit(w, Ev([ev |-> "enter", obj |-> o, inv |-> inv, type |-> "computedValue",
                   name |-> propName, seen |-> w.values[o][propName].value,
                   kind |-> w.values[o][propName].kind,
                   asInstanceProperty |-> asInstanceProperty])), LAMBDA w1 :
  Bind(bind(w1, o, inv, propName, ComputedValue), LAMBDA w2 :
    IF asInstanceProperty
    THEN defineProperty(w2, o, inv, propName, generateComputedPropConfig(propName))
    ELSE w2)))

\* property descriptors handed to defineObservablePropertyFromDescriptor: a plain
\* value, a modifier-wrapped initial value, a pre-built computed value, or a
\* getter/setter pair (no "value" key)
PlainDescriptor(v) ==
  [kind |-> "value", value |-> v, initialValue |-> v, enhancer |-> "none"]
ModifierDescriptor(v, e) ==
  [kind |-> "modifier", value |-> Undefined, initialValue |-> v, enhancer |-> e]
ComputedDescriptor ==
  [kind |-> "computedValue", value |-> Undefined, initialValue |-> Undefined, enhancer |-> "none"]
GetSetDescriptor ==
  [kind |-> "getset", value |-> Undefined, initialValue |-> Undefined, enhancer |-> "none"]
Descriptors ==
  {PlainDescriptor(v) : v \in Vals}
    \cup {ModifierDescriptor(v, e) : v \in Vals, e \in Enhancers}
    \cup {ComputedDescriptor, GetSetDescriptor}

\* a descriptor installer without the check on a bound name
defineObservablePropertyFromDescriptor_NoCheck(w0, o, propName, descriptor, defaultEnhancer) ==
  Bind(Emit(w0, Ev([ev |-> "fromDescriptor", obj |-> o, type |-> descriptor.kind,
                    name |-> propName, newValue |-> descriptor.value,
                    seen |-> w0.values[o][propName].value,
                    kind |-> w0.values[o][propName].kind])), LAMBDA w :
    IF w.values[o][propName].kind # "none"
    THEN AssignProp(w, o, propName, descriptor.value, 0)
    ELSE CASE descriptor.kind = "modifier" ->
                defineObservableProperty(w, o, propName, descriptor.initialValue,
                                         descriptor.enhancer, TRUE, 0)
           [] descriptor.kind = "computedValue" ->
                defineComputedPropertyFromComputedValue(w, o, propName, TRUE)
           [] descriptor.kind = "value" ->
                defineObservableProperty(w, o, propName, descriptor.value,
                                         defaultEnhancer, TRUE, 0)
           [] OTHER -> defineComputedProperty(w, o, propName, TRUE))

\* defineObservablePropertyFromDescriptor(adm, propName, descriptor, defaultEnhancer);
\* its event records the kind of the cell bound at propName on entry
defineObservablePropertyFromDescriptor(w0, o, propName, descriptor, defaultEnhancer) ==
  Bind(Emit(w0, Ev([ev |-> "fromDescriptor", obj |-> o, type |-> descriptor.kind,
                    name |-> propName, newValue |-> descriptor.value,
                    seen |-> w0.values[o][propName].value,
                    kind |-> w0.values[o][propName].kind])), LAMBDA w :
    IF w.values[o][propName].kind # "none"
    THEN IF descriptor.kind = "getset"
         THEN Throw(w, "RedefinitionConflict")
         ELSE AssignProp(w, o, propName, descriptor.value, 0)
    ELSE CASE descriptor.kind = "modifier" ->
                defineObservableProperty(w, o, propName, descriptor.initialValue,
                                         descriptor.enhancer, TRUE, 0)
           [] descriptor.kind = "computedValue" ->
                defineComputedPropertyFromComputedValue(w, o, propName, TRUE)
           [] descriptor.kind = "value" ->
                defineObservableProperty(w, o, propName, descriptor.value,
                                         defaultEnhancer, TRUE, 0)
           [] OTHER -> defineComputedProperty(w, o, propName, TRUE))

\* ------------------------------------------------- the administration
NameArgs == {"", "Point"}     \* the name argument: absent, or given

\* isObservableObject(thing): the lazy initializers it runs first have run
\* already on an object that carries an administration
isObservableObject(w, o) == w.instances[o].attached

\* asObservableObject without the test for an administration already attached
asObservableObject_AlwaysNew(w, o, name) ==
  IF ~w.instances[o].extensible
  THEN Throw(Emit(w, Ev([ev |-> "asObservableObject", obj |-> o, type |-> "rejected",
                         arg |-> name])), "NotExtensible")
  ELSE
  Bind(IF ~w.instances[o].plain
       THEN [name |-> Label(IF w.instances[o].typeName # "" THEN w.instances[o].typeName
                            ELSE "ObservableObject", w.mobxGuid + 1),
             guid |-> w.mobxGuid + 1]
       ELSE [name |-> Label(name, 0), guid |-> w.mobxGuid], LAMBDA n1 :
  Bind(IF n1.name.base = ""
       THEN [name |-> Label("ObservableObject", n1.guid + 1), guid |-> n1.guid + 1]
       ELSE n1, LAMBDA n2 :
    Emit([w EXCEPT !.mobxGuid = n2.guid,
                   !.instances[o].attached = TRUE,
                   !.instances[o].name = n2.name,
                   !.values[o] = [p \in Names |-> NoCell],
                   !.interceptors[o] = <<>>,
                   !.changeListeners[o] = <<>>],
         Ev([ev |-> "asObservableObject", obj |-> o, type |-> "created",
             arg |-> name, label |-> n2.name]))))

\* asObservableObject without the test for an extensible target
asObservableObject_NoExtensibleTest(w, o, name) ==
  IF isObservableObject(w, o)
  THEN Emit(w, Ev([ev |-> "asObservableObject", obj |-> o, type |-> "existing",
                   arg |-> name, label |-> w.instances[o].name]))
  ELSE
  Bind(IF ~w.instances[o].plain
       THEN [name |-> Label(IF w.instances[o].typeName # "" THEN w.instances[o].typeName
                            ELSE "ObservableObject", w.mobxGuid + 1),
             guid |-> w.mobxGuid + 1]
       ELSE [name |-> Label(name, 0), guid |-> w.mobxGuid], LAMBDA n1 :
  Bind(IF n1.name.base = ""
       THEN [name |-> Label("ObservableObject", n1.guid + 1), guid |-> n1.guid + 1]
       ELSE n1, LAMBDA n2 :
    Emit([w EXCEPT !.mobxGuid = n2.guid,
                   !.instances[o].attached = TRUE,
                   !.instances[o].name = n2.name,
                   !.values[o] = [p \in Names |-> NoCell],
                   !.interceptors[o] = <<>>,
                   !.changeListeners[o] = <<>>],
         Ev([ev |-> "asObservableObject", obj |-> o, type |-> "created",
             arg |-> name, label |-> n2.name]))))

\* asObservableObject(target, name): the administration already attached, or
\* a new one (new ObservableObjectAdministration, addHiddenFinalProp) under the
\* name given or a generated one
asObservableObject(w, o, name) ==
  IF isObservableObject(w, o)
  THEN Emit(w, Ev([ev |-> "asObservableObject", obj |-> o, type |-> "existing",
                   arg |-> name, label |-> w.instances[o].name]))
  ELSE IF ~w.instances[o].extensible
  THEN Throw(Emit(w, Ev([ev |-> "asObservableObject", obj |-> o, type |-> "rejected",
                         arg |-> name])), "NotExtensible")
  ELSE
  Bind(IF ~w.instances[o].plain
       THEN [name |-> Label(IF w.instances[o].typeName # "" THEN w.instances[o].typeName
                            ELSE "ObservableObject", w.mobxGuid + 1),
             guid |-> w.mobxGuid + 1]
       ELSE [name |-> Label(name, 0), guid |-> w.mobxGuid], LAMBDA n1 :
  Bind(IF n1.name.base = ""
       THEN [name |-> Label("ObservableObject", n1.guid + 1), guid |-> n1.guid + 1]
       ELSE n1, LAMBDA n2 :
    Emit([w EXCEPT !.mobxGuid = n2.guid,
                   !.instances[o].attached = TRUE,
                   !.instances[o].name = n2.name,
                   !.values[o] = [p \in Names |-> NoCell],
                   !.interceptors[o] = <<>>,
                   !.changeListeners[o] = <<>>],
         Ev([ev |-> "asObservableObject", obj |-> o, type |-> "created",
             arg |-> name, label |-> n2.name]))))

\* ---------------------------------------------------------------- actions
Finish(w) ==
  /\ values' = w.values
  /\ target' = w.target
  /\ log' = w.log
  /\ err' = w.err
  /\ UNCHANGED <<interceptors, changeListeners, spyEnabled, instances, mobxGuid>>

\* no record holds a cell, a guard or a listener yet
NoRecords ==
  /\ values = [o \in Objects |-> [p \in Names |-> NoCell]]
  /\ target = [o \in Objects |-> [p \in Names |-> Absent]]
  /\ interceptors = [o \in Objects |-> <<>>]
  /\ changeListeners = [o \in Objects |-> <<>>]
  /\ log = <<>>
  /\ err = NoErr

\* after asObservableObject(A) on a plain object A; B is a frozen object that
\* carries no administration
Init ==
  /\ NoRecords
  /\ spyEnabled \in BOOLEAN
  /\ instances = [o \in Objects |->
        IF o = "A"
        THEN [FreshTarget(TRUE, TRUE, "") EXCEPT
                !.attached = TRUE, !.name = Label("ObservableObject", 1)]
        ELSE FreshTarget(FALSE, TRUE, "")]
  /\ mobxGuid = 1

\* adm.observe(callback, fireImmediately)
Observe ==
  \E o \in Objects, k \in ListenerKinds, fireImmediately \in BOOLEAN :
    /\ instances[o].attached
    /\ Len(interceptors[o]) + Len(changeListeners[o]) < MaxCallbacks
    /\ changeListeners' = IF fireImmediately THEN changeListeners
                          ELSE [changeListeners EXCEPT ![o] = Append(@, k)]
    /\ err' = IF fireImmediately THEN "InvariantViolation" ELSE NoErr
    /\ log' = <<>>
    /\ UNCHANGED <<values, target, interceptors, spyEnabled, instances, mobxGuid>>

\* adm.intercept(handler)
Intercept ==
  \E o \in Objects, k \in InterceptorKinds :
    /\ instances[o].attached
    /\ Len(interceptors[o]) + Len(changeListeners[o]) < MaxCallbacks
    /\ interceptors' = [interceptors EXCEPT ![o] = Append(@, k)]
    /\ err' = NoErr
    /\ log' = <<>>
    /\ UNCHANGED <<values, target, changeListeners, spyEnabled, instances, mobxGuid>>

\* The operations below are those of a record: o carries one.
\* On a bound name only plain-value and getter/setter descriptors are drawn: a
\* modifier or computed object would itself be assigned as the new value.
InstallFromDescriptor ==
  \E o \in Objects, p \in Names, desc \in Descriptors :
    \E e \in IF desc.kind = "value" THEN Enhancers ELSE {"reference"} :
    /\ instances[o].attached
    /\ values[o][p].kind = "none" \/ desc.kind \in {"value", "getset"}
    /\ Finish(defineObservablePropertyFromDescriptor(World, o, p, desc, e))

InstallObservableCell ==
  \E o \in Objects, p \in Names, v \in Vals, e \in Enhancers, asAccessor \in BOOLEAN :
    /\ instances[o].attached
    /\ Finish(defineObservableProperty(World, o, p, v, e, asAccessor, 0))

InstallComputedCell ==
  \E o \in Objects, p \in Names, asAccessor \in BOOLEAN :
    /\ instances[o].attached
    /\ Finish(defineComputedProperty(World, o, p, asAccessor))

InstallComputedCellFromExisting ==
  \E o \in Objects, p \in Names, asAccessor \in BOOLEAN :
    /\ instances[o].attached
    /\ Finish(defineComputedPropertyFromComputedValue(World, o, p, asAccessor))

\* instance[p] = v from outside any callback
WriteProp ==
  \E o \in Objects, p \in Names, v \in Vals :
    /\ instances[o].attached
    /\ Finish(AssignProp(World, o, p, v, 0))

\* setPropertyValue(instance, p, v) called directly
CallSetPropertyValue ==
  \E o \in Objects, p \in Names, v \in Vals :
    /\ instances[o].attached
    /\ Finish(setPropertyValue(World, o, p, v, 0))

Next ==
  \/ Observe
  \/ Intercept
  \/ InstallFromDescriptor
  \/ InstallObservableCell
  \/ InstallComputedCell
  \/ InstallComputedCellFromExisting
  \/ WriteProp
  \/ CallSetPropertyValue

Spec == Init /\ [][Next]_vars

\* ------------------------------------------ creating the administration
\* the target objects a program may hand to asObservableObject: plain
\* objects and instances of a named or an anonymous class, extensible or not
Targets ==
  {FreshTarget(e, t[1], t[2]) :
     e \in BOOLEAN, t \in {<<TRUE, "">>, <<FALSE, "Foo">>, <<FALSE, "">>}}

InitReactivate ==
  /\ NoRecords
  /\ spyEnabled \in BOOLEAN
  /\ instances \in [Objects -> Targets]
  /\ mobxGuid = 0

\* asObservableObject(o, name)
Reactivate ==
  \E o \in Objects, name \in NameArgs :
    LET w == asObservableObject(World, o, name)
    IN  /\ values' = w.values
        /\ interceptors' = w.interceptors
        /\ changeListeners' = w.changeListeners
        /\ instances' = w.instances
        /\ mobxGuid' = w.mobxGuid
        /\ log' = w.log
        /\ err' = w.err
        /\ UNCHANGED <<target, spyEnabled>>

\* installing a value cell behind an accessor, from a plain-value descriptor
InstallPlainValue ==
  \E o \in Objects, p \in Names, v \in Vals :
    /\ instances[o].attached
    /\ values[o][p].kind = "none"
    /\ Finish(defineObservablePropertyFromDescriptor(World, o, p, PlainDescriptor(v), "reference"))

\* observe(listener) with a listener that only reads the property
ObservePassive ==
  \E o \in Objects :
    /\ instances[o].attached
    /\ Len(interceptors[o]) + Len(changeListeners[o]) < MaxCallbacks
    /\ changeListeners' = [changeListeners EXCEPT ![o] = Append(@, "read")]
    /\ log' = <<>>
    /\ err' = NoErr
    /\ UNCHANGED <<values, target, interceptors, spyEnabled, instances, mobxGuid>>

NextReactivate ==
  \/ Reactivate
  \/ ObservePassive
  \/ InstallPlainValue

SpecReactivate == InitReactivate /\ [][NextReactivate]_vars

\* ------------------------------------- installing on a closed target
\* A carries an administration; its target may have been closed to new
\* properties since (Object.preventExtensions), and the property may exist
\* as a non-configurable data property
InitSealed ==
  /\ values = [o \in Objects |-> [p \in Names |-> NoCell]]
  /\ \E t \in {Absent, Data(1, FALSE)} :
       target = [o \in Objects |-> [p \in Names |-> IF o = "A" THEN t ELSE Absent]]
  /\ interceptors = [o \in Objects |-> <<>>]
  /\ changeListeners = [o \in Objects |-> <<>>]
  /\ log = <<>>
  /\ err = NoErr
  /\ spyEnabled \in BOOLEAN
  /\ \E e \in BOOLEAN :
       instances = [o \in Objects |->
                      IF o = "A"
                      THEN [FreshTarget(e, TRUE, "") EXCEPT
                              !.attached = TRUE, !.name = Label("ObservableObject", 1)]
                      ELSE FreshTarget(FALSE, TRUE, "")]
  /\ mobxGuid = 1

NextSealed ==
  \/ Observe
  \/ Intercept
  \/ InstallObservableCell
  \/ InstallComputedCell

SpecSealed == InitSealed /\ [][NextSealed]_vars

\* ------------------------------------------ two records, one accessor
\* after asObservableObject(A) and asObservableObject(B) on two plain objects
InitShared ==
  /\ NoRecords
  /\ spyEnabled = FALSE
  /\ instances = [o \in Objects |->
                    [FreshTarget(TRUE, TRUE, "") EXCEPT
                       !.attached = TRUE,
                       !.name = Label("ObservableObject", IF o = "A" THEN 1 ELSE 2)]]
  /\ mobxGuid = 2

\* intercept(handler) with a handler that rewrites the value
InterceptRewriting ==
  \E o \in Objects :
    /\ instances[o].attached
    /\ Len(interceptors[o]) + Len(changeListeners[o]) < MaxCallbacks
    /\ interceptors' = [interceptors EXCEPT ![o] = Append(@, "times10")]
    /\ err' = NoErr
    /\ log' = <<>>
    /\ UNCHANGED <<values, target, changeListeners, spyEnabled, instances, mobxGuid>>

NextShared ==
  \/ ObservePassive
  \/ InterceptRewriting
  \/ InstallPlainValue
  \/ WriteProp

SpecShared == InitShared /\ [][NextShared]_vars

\* -------------------------------------------- listeners that raise
\* observe(listener) with a listener that raises an error
ObserveThrowing ==
  \E o \in Objects :
    /\ instances[o].attached
    /\ Len(interceptors[o]) + Len(changeListeners[o]) < MaxCallbacks
    /\ changeListeners' = [changeListeners EXCEPT ![o] = Append(@, "throw")]
    /\ log' = <<>>
    /\ err' = NoErr
    /\ UNCHANGED <<values, target, interceptors, spyEnabled, instances, mobxGuid>>

NextThrowing ==
  \/ Observe
  \/ ObserveThrowing
  \/ InstallObservableCell
  \/ WriteProp

SpecThrowing == Init /\ [][NextThrowing]_vars

\* ------------------------------------------------ guards on one record
\* installs of value cells and writes on a record with guards
NextGuarded ==
  \/ Intercept
  \/ InstallObservableCell
  \/ WriteProp

SpecGuarded == Init /\ [][NextGuarded]_vars

\* ------------------------------------------------------ reading the log
LogIdx == 1..Len(log)

\* the positions of invocation inv's events of one sort
EventsOf(inv, ev) == {i \in LogIdx : log[i].inv = inv /\ log[i].ev = ev}

\* the position where invocation inv was entered
EnterOf(inv) == CHOOSE i \in LogIdx : log[i].ev = "enter" /\ log[i].inv = inv

\* nothing stores into a cell strictly between positions i and j
NoStoreBetween(i, j) ==
  \A k \in (i + 1)..(j - 1) : log[k].ev \notin {"setNewValue", "cellSet", "bind"}

\* the owner's property is the accessor that reads and writes the value cell
IsObservableAccessor(o, p) ==
  target[o][p].kind = "accessor" /\ target[o][p].config = "observable"

\* the effects of an update past the guards: trace, commit, notifications
UpdateEffects == {"prepareNewValue", "spyStart", "setNewValue", "notify", "spyEnd"}

\* what a chain of guards makes of a value none of them cancels
RECURSIVE Rewritten(_, _, _)
Rewritten(guards, i, v) ==
  IF i > Len(guards) THEN v
  ELSE Rewritten(guards, i + 1, IF guards[i] = "times10" THEN v * 10 ELSE v)

\* what the k-th guard of a chain receives when none before it cancels
Received(guards, k, v) == Rewritten(SubSeq(guards, 1, k - 1), 1, v)

\* the number of trace events of one sort strictly between positions i and j
TraceBetween(ev, i, j) ==
  Cardinality({k \in (i + 1)..(j - 1) : log[k].ev = ev})

\* the state a function runs on, with o's listeners and the tracing switch
\* replaced
Observed(o, listeners, spy) ==
  [World EXCEPT !.changeListeners[o] = listeners, !.spy = spy]

C2_VetoPurity ==
  \A r \in LogIdx :
    (log[r].ev = "chainResult" /\ log[r].type = "cancel"
       /\ log[EnterOf(log[r].inv)].type = "update") =>
    LET n == log[r].inv
        e == EnterOf(n)
    IN  /\ \A x \in UpdateEffects : EventsOf(n, x) = {}
        /\ EventsOf(n, "return") = {r + 1}
        /\ log[r + 1].type = "veto"
        /\ NoStoreBetween(e, r) => log[r + 1].seen = log[e].seen

\* a write of a new value was cancelled with a listener registered and tracing on
C2_Witness ==
  /\ spyEnabled
  /\ err = NoErr
  /\ \E r \in LogIdx :
       /\ log[r].ev = "chainResult" /\ log[r].type = "cancel"
       /\ log[EnterOf(log[r].inv)].type = "update"
       /\ log[EnterOf(log[r].inv)].kind = "observable"
       /\ log[EnterOf(log[r].inv)].newValue # log[EnterOf(log[r].inv)].seen
       /\ hasListeners(World, log[r].obj)
       /\ values[log[r].obj][log[r].name].value = log[EnterOf(log[r].inv)].seen

\* C3: when the candidate, after the guards' rewrites and the cell's coercion,
\* equals the cell's current value, the router commits nothing, notifies no
\* listener, emits no trace event and returns normally.
C3_UnchangedShortCircuit ==
  \A p \in LogIdx :
    (log[p].ev = "prepareNewValue"
       /\ Enhance(log[p].enhancer, log[p].newValue) = log[p].oldValue) =>
    LET n == log[p].inv
    IN  /\ \A x \in UpdateEffects \ {"prepareNewValue"} : EventsOf(n, x) = {}
        /\ EventsOf(n, "return") = {p + 1}
        /\ log[p + 1].type = "unchanged"
        /\ log[p + 1].seen = log[p].oldValue

\* a write whose value differs from the cell's but is rewritten and coerced to
\* it, with a listener registered and tracing on
C3_Witness ==
  /\ spyEnabled
  /\ err = NoErr
  /\ \E p \in LogIdx :
       /\ log[p].ev = "prepareNewValue"
       /\ log[p].seen = UNCHANGED_SENTINEL
       /\ log[p].newValue # log[p].oldValue
       /\ log[EnterOf(log[p].inv)].newValue # log[p].newValue
       /\ hasListeners(World, log[p].obj)

\* C4: every update notification carries, as oldValue, the cell's value
\* immediately before the commit of the write it belongs to and, as newValue,
\* the value that write stored: the caller's value after every guard's rewrite
\* and the cell's coercion.  This holds for nested writes made by guards and
\* listeners too.
C4_NotificationContent ==
  \A t \in LogIdx : (log[t].ev = "notify" /\ log[t].type = "update") =>
    LET n == log[t].inv
        o == log[t].obj
        commits == EventsOf(n, "setNewValue")
        prepared == EventsOf(n, "prepareNewValue")
    IN  /\ Cardinality(commits) = 1
        /\ Cardinality(prepared) = 1
        /\ \A c \in commits :
             /\ c < t
             /\ log[t].oldValue = log[c].oldValue
             /\ log[t].newValue = log[c].seen
             /\ \A q \in prepared :
                  log[t].newValue =
                    Enhance(log[q].enhancer,
                            Rewritten(interceptors[o], 1, log[EnterOf(n)].newValue))
             /\ log[t].name = log[EnterOf(n)].name

\* with a guard multiplying by ten, a write of 3 is stored and notified as 30,
\* in a write nested in another write's notification
C4_Witness ==
  /\ err = NoErr
  /\ \E o \in Objects : interceptors[o] = <<"times10">>
  /\ \E t1, t2 \in LogIdx :
       /\ log[t1].ev = "notify" /\ log[t2].ev = "notify"
       /\ log[t1].type = "update" /\ log[t2].type = "update"
       /\ log[t1].inv = 1 /\ log[t2].inv = 2
       /\ log[EnterOf(2)].newValue = 3
       /\ log[t2].newValue = 30
       /\ log[t2].oldValue = log[t1].newValue
       /\ values[log[t2].obj][log[t2].name].value = 30

\* the cell kind an install operation is asked for, from its entry event
InstalledKind(e) ==
  IF e.ev = "enter"
  THEN (IF e.type = "add" THEN "observable" ELSE "computed")
  ELSE (IF e.type \in {"value", "modifier"} THEN "observable" ELSE "computed")

\* C5: a name stays bound to one cell kind: an install of the other kind on a
\* bound name, by any of the install operations, fails with
\* RedefinitionConflict and leaves the binding as it was.
C5_SingleBinding ==
  \A i \in LogIdx :
    (/\ \/ log[i].ev = "fromDescriptor"
        \/ log[i].ev = "enter" /\ log[i].type \in {"add", "computed", "computedValue"}
     /\ log[i].kind \notin {"none", InstalledKind(log[i])}) =>
    /\ err = "RedefinitionConflict"
    /\ values[log[i].obj][log[i].name].kind = log[i].kind

\* C6: installFromDescriptor with a getter/setter descriptor on a bound name
\* fails with RedefinitionConflict before anything else happens: no guard
\* runs, no cell value or binding changes, no listener or trace event fires.
C6_RedefinitionConflict ==
  \A o \in Objects, p \in Names :
    values[o][p].kind # "none" =>
      LET w == defineObservablePropertyFromDescriptor(World, o, p, GetSetDescriptor, "reference")
      IN  /\ w.err = "RedefinitionConflict"
          /\ w.values = values
          /\ w.target = target
          /\ Len(w.log) = 1 /\ w.log[1].ev = "fromDescriptor"

\* a getter/setter redeclaration of a value cell's name was rejected on a
\* record with a guard and a listener
C6_Witness ==
  /\ err = "RedefinitionConflict"
  /\ Len(log) = 1
  /\ log[1].ev = "fromDescriptor" /\ log[1].type = "getset" /\ log[1].kind = "observable"
  /\ hasInterceptors(World, log[1].obj) /\ hasListeners(World, log[1].obj)
  /\ spyEnabled

\* C7: installFromDescriptor with a plain value on a name bound to a value
\* cell is a write of that value through the router: no cell is bound, the
\* guards get an update change and the listeners an update notification,
\* however the cell was installed.
C7_RedeclarationAssigns ==
  (Len(log) > 0 /\ log[1].ev = "fromDescriptor" /\ log[1].type = "value"
     /\ log[1].kind = "observable") =>
    /\ Len(log) > 1
    /\ log[2].ev = "enter" /\ log[2].type = "update" /\ log[2].inv = 1
    /\ log[2].newValue = log[1].newValue
    /\ \A i \in LogIdx :
         /\ log[i].ev \notin {"bind", "defineProperty", "dataStore", "cellSet"}
         /\ log[i].ev \in {"intercept", "notify"} => log[i].type = "update"

\* C8: installObservableCell runs the guards on an add change before it
\* constructs the cell; when a guard cancels, it returns silently having bound
\* no cell, installed no accessor, notified no listener and emitted no trace
\* event; otherwise the cell is seeded with the value the guards returned.
C8_AddInterception ==
  \A e \in LogIdx : (log[e].ev = "enter" /\ log[e].type = "add") =>
    LET n == log[e].inv
        o == log[e].obj
        guards == EventsOf(n, "intercept")
        binds == EventsOf(n, "bind")
        cancelled == \E r \in EventsOf(n, "chainResult") : log[r].type = "cancel"
    IN  /\ \A g \in guards : log[g].type = "add" /\ \A b \in binds : g < b
        /\ (hasInterceptors(World, o) /\ err # "PropertyNotConfigurable")
             => (guards # {} /\ \E g \in guards : log[g].idx = 1 /\ log[g].newValue = log[e].newValue)
        /\ cancelled =>
             /\ \A x \in {"bind", "defineProperty", "notify", "spyStart", "spyEnd"} :
                  EventsOf(n, x) = {}
             /\ \E r \in EventsOf(n, "return") : log[r].type = "veto"
             /\ err = NoErr
             /\ log[e].kind = "none" =>
                  values[o][log[e].name].kind = "none" /\ target[o][log[e].name].kind # "accessor"
        /\ \A b \in binds :
             log[b].newValue =
               Enhance(log[b].enhancer, Rewritten(interceptors[o], 1, log[e].newValue))

\* an install on a fresh name was cancelled with a listener registered and
\* tracing on
C8_Witness ==
  /\ spyEnabled
  /\ err = NoErr
  /\ Len(log) > 0 /\ log[1].ev = "enter" /\ log[1].type = "add" /\ log[1].kind = "none"
  /\ \E r \in LogIdx : log[r].ev = "chainResult" /\ log[r].type = "cancel"
  /\ hasListeners(World, log[1].obj)
  /\ values[log[1].obj][log[1].name].kind = "none"

C10_ComputedSetterBypass ==
  \A o \in Objects, p \in Names, v \in Vals :
    (target[o][p].kind = "accessor" /\ target[o][p].config = "computed") =>
      LET w == AssignProp(World, o, p, v, 0)
      IN  /\ \A i \in 1..Len(w.log) : w.log[i].ev = "cellSet"
          /\ Len(w.log) <= 1
          /\ w.err = NoErr
          /\ values[o][p].kind = "computed" =>
               /\ Len(w.log) = 1
               /\ w.values[o][p].value = v

\* a computed cell was written through its accessor on a record with a
\* vetoing guard and a listener, with tracing on
C10_Witness ==
  /\ spyEnabled
  /\ err = NoErr
  /\ Len(log) = 1 /\ log[1].ev = "cellSet" /\ log[1].type = "computed"
  /\ values[log[1].obj][log[1].name].value = log[1].newValue
  /\ \E i \in 1..Len(interceptors[log[1].obj]) : interceptors[log[1].obj][i] = "cancel"
  /\ hasListeners(World, log[1].obj)

\* ------------------------------------------------------------------ C11
\* C11: asObservableObject on a target that already carries an administration
\* returns that administration and changes nothing: its name, its cells, its
\* guards and its listeners stay as they are, whatever name is passed, and the
\* id counter is not advanced.
C11_ReactivateIdempotent ==
  \A o \in Objects, name \in NameArgs :
    isObservableObject(World, o) =>
      LET w == asObservableObject(World, o, name)
      IN  /\ w.err = NoErr
          /\ w.instances = instances
          /\ w.mobxGuid = mobxGuid
          /\ w.values = values
          /\ w.target = target
          /\ w.interceptors = interceptors
          /\ w.changeListeners = changeListeners
          /\ w.log[1].type = "existing"
          /\ w.log[1].label = instances[o].name

\* a second call, under another name, on a record that holds a cell and a listener
C11_Witness ==
  /\ Len(log) = 1
  /\ log[1].ev = "asObservableObject"
  /\ log[1].type = "existing"
  /\ log[1].arg = "Point"
  /\ instances[log[1].obj].name.base # "Point"
  /\ values[log[1].obj]["x"].kind = "observable"
  /\ hasListeners(World, log[1].obj)

\* ------------------------------------------------------------------ C12
\* C12: asObservableObject on a target that is not extensible and carries no
\* administration fails with NotExtensible and attaches nothing: afterwards
\* the target carries no administration and isObservableObject is false.
C12_NotExtensible ==
  \A o \in Objects, name \in NameArgs :
    (~isObservableObject(World, o) /\ ~instances[o].extensible) =>
      LET w == asObservableObject(World, o, name)
      IN  /\ w.err = "NotExtensible"
          /\ w.instances = instances
          /\ w.mobxGuid = mobxGuid
          /\ ~isObservableObject(w, o)

\* a call that was rejected
C12_Witness ==
  /\ Len(log) = 1
  /\ log[1].ev = "asObservableObject"
  /\ log[1].type = "rejected"
  /\ err = "NotExtensible"
  /\ ~instances[log[1].obj].attached
  /\ ~instances[log[1].obj].extensible

\* ------------------------------------------------------------------ C13
\* C13: the name of a new administration is generated only when no name is
\* passed ("ObservableObject@N" for a plain object, "<TypeName>@N" for an
\* instance of a class); a name that is passed is the name of the
\* administration, for plain objects and instances alike; the name is never
\* empty.
C13_LabelDerivation ==
  \A i \in 1..Len(log) :
    (log[i].ev = "asObservableObject" /\ log[i].type = "created") =>
      /\ log[i].label.base # ""
      /\ log[i].arg # "" => log[i].label = Label(log[i].arg, 0)
      /\ log[i].arg = "" =>
           /\ log[i].label.id > 0
           /\ log[i].label.base =
                IF instances[log[i].obj].plain \/ instances[log[i].obj].typeName = ""
                THEN "ObservableObject" ELSE instances[log[i].obj].typeName

\* ------------------------------------------------------------------ C14
\* C14: an install either completes or has no effect: when
\* defineObservableProperty or defineComputedProperty ends with an error, no
\* guard has run, the name is bound as it was on entry, and no listener was
\* notified and no trace event reported.
C14_NoPartialFailure ==
  (/\ Len(log) > 0
   /\ log[1].ev = "enter"
   /\ log[1].type \in {"add", "computed"}
   /\ err # NoErr) =>
     /\ \A i \in 2..Len(log) :
          log[i].ev \notin {"intercept", "bind", "notify", "spyStart", "spyEnd"}
     /\ values[log[1].obj][log[1].name].kind = log[1].kind
     /\ values[log[1].obj][log[1].name].value = log[1].seen

\* ------------------------------------------------------------------ C15
\* C15: setPropertyValue looks the cell up first: called for a name that has
\* no cell, it fails with UnknownProperty before the guards run, so that no
\* guard is called, no listener notified and no trace event reported.  (Any
\* error counts as the failure here, whatever its name.)
C15_UnknownProperty ==
  (/\ Len(log) > 0
   /\ log[1].ev = "enter"
   /\ log[1].type = "update"
   /\ log[1].kind = "none") =>
     /\ err # NoErr
     /\ \A i \in 2..Len(log) :
          log[i].ev \notin {"intercept", "notify", "spyStart", "spyEnd"}

\* ------------------------------------------------------------------ C16
\* C16: for an add and for an update alike, the guards are called in the order
\* they were registered; the first guard that cancels ends the chain, so that
\* no later guard is called for that change; and the value a guard puts in
\* place of newValue is what every later guard receives and what the router
\* or installer hands to the cell.
C16_ChainProtocol ==
  \A e \in LogIdx : (log[e].ev = "enter" /\ log[e].type \in {"add", "update"}) =>
    LET n == log[e].inv
        o == log[e].obj
        guards == EventsOf(n, "intercept")
        results == EventsOf(n, "chainResult")
    IN  /\ \A g \in guards :
             /\ log[g].idx = Cardinality({h \in guards : h <= g})
             /\ log[g].type = log[e].type
             /\ log[g].newValue = Received(interceptors[o], log[g].idx, log[e].newValue)
             /\ interceptors[o][log[g].idx] = "cancel" =>
                  /\ \A h \in guards : h <= g
                  /\ \E r \in results : log[r].type = "cancel" /\ g < r
             /\ \A r \in results : g < r
        /\ \A r \in results :
             /\ log[r].type = "cancel" =>
                  \E g \in guards : interceptors[o][log[g].idx] = "cancel"
             /\ log[r].type = "continue" =>
                  /\ Cardinality(guards) = Len(interceptors[o])
                  /\ \A g \in guards : interceptors[o][log[g].idx] # "cancel"
                  /\ log[r].newValue = Rewritten(interceptors[o], 1, log[e].newValue)
        /\ \A p \in EventsOf(n, "prepareNewValue") :
             /\ log[p].newValue = Rewritten(interceptors[o], 1, log[e].newValue)
             /\ \A r \in results : log[r].type = "continue" /\ r < p
        /\ \A b \in EventsOf(n, "bind") :
             /\ log[b].newValue =
                  Enhance(log[b].enhancer, Rewritten(interceptors[o], 1, log[e].newValue))
             /\ \A r \in results : log[r].type = "continue" /\ r < b

\* a write that two guards rewrote in turn before it reached the cell
C16_Witness ==
  /\ Len(log) > 0 /\ log[1].ev = "enter" /\ log[1].type = "update"
  /\ \E g \in LogIdx :
       /\ log[g].ev = "intercept" /\ log[g].inv = 1 /\ log[g].idx = 2
       /\ log[g].newValue = 10 * log[1].newValue
  /\ \E p \in LogIdx :
       /\ log[p].ev = "prepareNewValue" /\ log[p].inv = 1
       /\ log[p].newValue = 100 * log[1].newValue

\* ------------------------------------------------------------------ C17
\* C17: the accessor pair memoized under a property name finds the
\* administration through the receiver: when two observable objects both have
\* the observable property p, a write to one's p changes only its own cell and
\* runs only its own guards and listeners; the other's cell, guards and
\* listeners are untouched, and reading the other's p gives its own cell's
\* value.
C17_SharedAccessors ==
  \A a \in Objects, p \in Names, v \in Vals :
    (\A o \in Objects : IsObservableAccessor(o, p) /\ values[o][p].kind = "observable") =>
      LET w == AssignProp(World, a, p, v, 0)
      IN  /\ \A i \in 1..Len(w.log) : w.log[i].obj = a
          /\ Len(w.log) > 0 /\ w.log[1].ev = "enter" /\ w.log[1].type = "update"
          /\ w.interceptors = interceptors
          /\ w.changeListeners = changeListeners
          /\ Cardinality({i \in 1..Len(w.log) : w.log[i].ev = "intercept" /\ w.log[i].inv = 1})
               <= Len(interceptors[a])
          /\ Cardinality({i \in 1..Len(w.log) : w.log[i].ev = "notify" /\ w.log[i].inv = 1})
               \in {0, Len(changeListeners[a])}
          /\ (\A i \in 1..Len(interceptors[a]) : interceptors[a][i] = "times10") =>
               w.values[a][p].value = Rewritten(interceptors[a], 1, v)
          /\ \A b \in Objects \ {a} :
               /\ w.values[b] = values[b]
               /\ w.target[b] = target[b]
               /\ ReadProp(w, b, p) = CellGet(values[b][p])

\* a write to A's x was committed and notified while B holds another value
\* at x behind its own guard and listener
C17_Witness ==
  /\ \A o \in Objects : IsObservableAccessor(o, "x") /\ values[o]["x"].kind = "observable"
  /\ values["A"]["x"].value # values["B"]["x"].value
  /\ hasInterceptors(World, "B") /\ hasListeners(World, "B")
  /\ Len(log) > 0 /\ log[1].ev = "enter" /\ log[1].type = "update" /\ log[1].obj = "A"
  /\ \E i \in LogIdx : log[i].ev = "setNewValue" /\ log[i].obj = "A"
  /\ \E i \in LogIdx : log[i].ev = "notify" /\ log[i].obj = "A"

\* ------------------------------------------------------------------ C18
\* C18: when a listener writes the same property again during its
\* notification, every listener still receives the update notifications in
\* the order the writes were committed: for each listener the newValue of one
\* notification is the oldValue of the next it receives, and the newValue of
\* the last one is the value the cell holds when the outermost write has
\* returned.  (Stated for a record without guards, whose property is the
\* observable accessor.)
C18_ReentrantNotificationOrder ==
  (/\ Len(log) > 0
   /\ log[1].ev = "enter"
   /\ log[1].type = "update"
   /\ err = NoErr
   /\ ~hasInterceptors(World, log[1].obj)
   /\ IsObservableAccessor(log[1].obj, log[1].name)) =>
     \A k \in 1..Len(changeListeners[log[1].obj]) :
       LET notes == {i \in LogIdx : /\ log[i].ev = "notify"
                                    /\ log[i].type = "update"
                                    /\ log[i].obj = log[1].obj
                                    /\ log[i].name = log[1].name
                                    /\ log[i].idx = k}
       IN  \A i \in notes :
             /\ \A j \in notes :
                  (i < j /\ \A m \in notes : ~(i < m /\ m < j))
                    => log[i].newValue = log[j].oldValue
             /\ (\A j \in notes : j <= i)
                  => log[i].newValue = values[log[1].obj][log[1].name].value

\* ------------------------------------------------------------------ C19
\* C19: with tracing on, once the outermost install or write has returned or
\* has ended with an error raised by a listener, as many trace-end events as
\* trace-start events have been reported, and they nest: each trace-end
\* closes the latest trace-start not yet closed.
C19_TraceBalance ==
  (/\ spyEnabled
   /\ Len(log) > 0
   /\ log[1].ev = "enter"
   /\ err \in {NoErr, "ListenerError"}) =>
     LET starts == {i \in LogIdx : log[i].ev = "spyStart"}
         ends == {i \in LogIdx : log[i].ev = "spyEnd"}
     IN  /\ Cardinality(starts) = Cardinality(ends)
         /\ \A e \in ends :
              \E s \in starts :
                /\ s < e
                /\ log[s].inv = log[e].inv
                /\ TraceBetween("spyStart", s, e) = TraceBetween("spyEnd", s, e)

\* ------------------------------------------------------------------ C20
\* C20: listeners and tracing do not influence the state: for the same record,
\* the same guards and the same written value, the value the cell holds after
\* setPropertyValue has returned is the same whether or not a passive listener
\* is registered and whether or not tracing is on; leaving the change record
\* out never skips or alters the commit.
C20_ObserversDoNotInfluence ==
  \A o \in Objects, p \in Names, v \in Vals :
    (instances[o].attached /\ values[o][p].kind = "observable") =>
      LET bare == setPropertyValue(Observed(o, <<>>, FALSE), o, p, v, 0)
      IN  \A listeners \in {<<>>, <<"read">>}, spy \in BOOLEAN :
            LET w == setPropertyValue(Observed(o, listeners, spy), o, p, v, 0)
            IN  /\ w.values = bare.values
                /\ w.target = bare.target
                /\ w.err = bare.err
                /\ \A x \in {"intercept", "prepareNewValue", "setNewValue"} :
                     Cardinality({i \in 1..Len(w.log) : w.log[i].ev = x})
                       = Cardinality({i \in 1..Len(bare.log) : bare.log[i].ev = x})

\* a write that guards rewrote was committed with no listener and no tracing
C20_Witness ==
  /\ ~spyEnabled
  /\ Len(log) > 0 /\ log[1].ev = "enter" /\ log[1].type = "update"
  /\ ~hasListeners(World, log[1].obj)
  /\ hasInterceptors(World, log[1].obj)
  /\ \E c \in LogIdx : log[c].ev = "setNewValue" /\ log[c].inv = 1
  /\ err = NoErr
  /\ values[log[1].obj][log[1].name].value # log[1].newValue

====
